---- MODULE Spec2Model ----
(***************************************************************************)
(* A model of routerify's Route (src/route/mod.rs): construction from a    *)
(* path template, is_match, parameter extraction and the three dispatch    *)
(* behaviours of process (Normal handler, nested Router, WS).              *)
(*                                                                         *)
(* Strings are sequences of one-character strings.  The pattern generator  *)
(* (mod regex_generator) and the nested Router are not part of this file   *)
(* of the crate; they are modelled from the design document.               *)
(***************************************************************************)
EXTENDS Naturals, Integers, Sequences, FiniteSets, TLC

VARIABLES
    route,      \* SpecRoute: the Route a constructor returned, or NoRoute
    ctor,       \* SpecRoute: the last constructor call and its result
    probe,      \* SpecRoute: the last is_match / generate_req_data call and its result
    reqs,       \* Spec: the in-flight requests, one record per request id
    routers     \* Spec: the route table of each router of the tree

vars == <<route, ctor, probe, reqs, routers>>

(***************************************************************************)
(* Bounds.                                                                 *)
(***************************************************************************)
MaxSegs == 2        \* segments of a generated template
MaxPathSegs == 3    \* segments of a generated target path
MaxReqs == 2        \* concurrent requests

(***************************************************************************)
(* Text helpers.                                                           *)
(***************************************************************************)
Slash == "/"

\* Position of the first "/" of s, 0 when there is none.
FirstSlash(s) ==
    IF \E i \in 1..Len(s) : s[i] = Slash
    THEN CHOOSE i \in 1..Len(s) : s[i] = Slash /\ \A j \in 1..(i-1) : s[j] # Slash
    ELSE 0

\* s segmented on "/".
RECURSIVE Split(_)
Split(s) ==
    LET i == FirstSlash(s)
    IN  IF i = 0 THEN <<s>>
        ELSE <<SubSeq(s, 1, i-1)>> \o Split(SubSeq(s, i+1, Len(s)))

\* The text "/seg1/seg2/..." of a sequence of segments.
RECURSIVE JoinSegs(_)
JoinSegs(segs) ==
    IF segs = <<>> THEN <<>>
    ELSE <<Slash>> \o Head(segs) \o JoinSegs(Tail(segs))

SeqsUpTo(S, n) == UNION {[1..k -> S] : k \in 0..n}

\* The element of a one-element set.  {F(x) : x \in {e}} is F(e) with e
\* evaluated once.
Only(S) == CHOOSE x \in S : TRUE

(***************************************************************************)
(* The regex engine, as far as Route uses it: a pattern is a sequence of   *)
(* tokens anchored at the start, a literal character or a capturing group  *)
(* ([^/]+), and optionally anchored at the end.                            *)
(***************************************************************************)
Lit(c) == [t |-> "lit", c |-> c]
Group == [t |-> "group"]
NoMatch == [matched |-> FALSE]

\* Length of the longest run of non-"/" characters of s starting at pos.
RECURSIVE RunLen(_, _)
RunLen(s, pos) ==
    IF pos > Len(s) \/ s[pos] = Slash THEN 0 ELSE 1 + RunLen(s, pos + 1)

\* Leftmost-first match of toks[i..] against s from pos: NoMatch or the end
\* position (one past the match) and the captured groups, in order.
RECURSIVE MatchFrom(_, _, _, _, _)
RECURSIVE TryGroup(_, _, _, _, _, _)
MatchFrom(toks, exact, i, s, pos) ==
    IF i > Len(toks)
    THEN IF exact /\ pos # Len(s) + 1 THEN NoMatch
         ELSE [matched |-> TRUE, end |-> pos, groups |-> <<>>]
    ELSE IF toks[i].t = "lit"
    THEN IF pos <= Len(s) /\ s[pos] = toks[i].c
         THEN MatchFrom(toks, exact, i + 1, s, pos + 1)
         ELSE NoMatch
    ELSE TryGroup(toks, exact, i, s, pos, RunLen(s, pos))

\* The greedy group: the longest capture first, shorter ones on backtracking.
TryGroup(toks, exact, i, s, pos, k) ==
    IF k < 1 THEN NoMatch
    ELSE Only({ IF rest.matched
                THEN [matched |-> TRUE, end |-> rest.end,
                      groups |-> <<SubSeq(s, pos, pos + k - 1)>> \o rest.groups]
                ELSE TryGroup(toks, exact, i, s, pos, k - 1) :
                rest \in {MatchFrom(toks, exact, i + 1, s, pos + k)} })

\* Regex::captures
regex_captures(re, s) == MatchFrom(re.toks, re.exact, 1, s, 1)

\* Regex::is_match
regex_is_match(re, s) == regex_captures(re, s).matched

\* Regex::replace(text, ""): the first match removed, the text itself when
\* nothing matches.
regex_replace_empty(re, s) ==
    Only({ IF m.matched THEN SubSeq(s, m.end, Len(s)) ELSE s :
           m \in {regex_captures(re, s)} })

(***************************************************************************)
(* regex_generator (modelled from the design document): a template is      *)
(* segmented on "/"; a segment {name} is a capturing group, any other      *)
(* segment is literal text; a segment with a stray brace is malformed.     *)
(***************************************************************************)
HasBrace(seg) == \E i \in 1..Len(seg) : seg[i] \in {"{", "}"}

IsParamSeg(seg) ==
    /\ Len(seg) >= 3
    /\ seg[1] = "{"
    /\ seg[Len(seg)] = "}"
    /\ ~HasBrace(SubSeq(seg, 2, Len(seg) - 1))

Malformed(seg) == HasBrace(seg) /\ ~IsParamSeg(seg)

SegToks(seg) ==
    IF IsParamSeg(seg) THEN <<Group>>
    ELSE [i \in 1..Len(seg) |-> Lit(seg[i])]

RECURSIVE SegsToks(_)
SegsToks(segs) ==
    IF Len(segs) = 1 THEN SegToks(segs[1])
    ELSE SegToks(segs[1]) \o <<Lit(Slash)>> \o SegsToks(Tail(segs))

RECURSIVE SegsParams(_)
SegsParams(segs) ==
    IF segs = <<>> THEN <<>>
    ELSE (IF IsParamSeg(Head(segs))
          THEN <<SubSeq(Head(segs), 2, Len(Head(segs)) - 1)>>
          ELSE <<>>) \o SegsParams(Tail(segs))

generate_common_regex(path, exact) ==
    LET segs == Split(path)
    IN  IF \E i \in 1..Len(segs) : Malformed(segs[i])
        THEN [ok |-> FALSE]
        ELSE [ok |-> TRUE,
              re |-> [toks |-> SegsToks(segs), exact |-> exact],
              params |-> SegsParams(segs)]

generate_exact_match_regex(path) == generate_common_regex(path, TRUE)

generate_prefix_match_regex(path) == generate_common_regex(path, FALSE)

\* Route::gen_exact_match_regex / gen_prefix_match_regex: the generator's
\* result, its error given context.
gen_exact_match_regex(path) == generate_exact_match_regex(path)

gen_prefix_match_regex(path) == generate_prefix_match_regex(path)

(***************************************************************************)
(* PathParams and RequestData (crate::PathParams, crate::RequestData;      *)
(* modelled from the design document): a mapping from parameter name to    *)
(* value in which setting a name that is present overwrites its value.     *)
(***************************************************************************)
path_params_new == <<>>

path_params_set(pp, name, val) ==
    [k \in (DOMAIN pp) \cup {name} |-> IF k = name THEN val ELSE pp[k]]

path_params_extend(pp, other) ==
    [k \in (DOMAIN pp) \cup (DOMAIN other) |->
        IF k \in DOMAIN other THEN other[k] ELSE pp[k]]

request_data_new(pp) == [path_params |-> pp]

request_data_extend(rd, other) ==
    [path_params |-> path_params_extend(rd.path_params, other.path_params)]

(***************************************************************************)
(* Route: the constructors.                                                *)
(***************************************************************************)
NoRoute == [inner |-> [kind |-> "None"]]

CtorErr(msg) == [ok |-> FALSE, err |-> msg]

\* An ignored generator failure: the Route is built around an empty pattern.
with_normal_unchecked(path, methods, handler) ==
    LET g == gen_exact_match_regex(path)
    IN  [ok |-> TRUE,
         route |-> [path |-> path,
                    regex |-> IF g.ok THEN g.re ELSE [toks |-> <<>>, exact |-> TRUE],
                    path_params |-> IF g.ok THEN g.params ELSE <<>>,
                    inner |-> [kind |-> "Normal", methods |-> methods,
                               handler |-> handler]]]

with_normal(path, methods, handler) ==
    LET g == gen_exact_match_regex(path)
    IN  IF ~g.ok
        THEN CtorErr("Could not create an exact match regex for the route path")
        ELSE [ok |-> TRUE,
              route |-> [path |-> path, regex |-> g.re, path_params |-> g.params,
                         inner |-> [kind |-> "Normal", methods |-> methods,
                                    handler |-> handler]]]

with_router(path, router) ==
    LET g == gen_prefix_match_regex(path)
    IN  IF ~g.ok
        THEN CtorErr("Could not create a prefix match regex for the route path")
        ELSE [ok |-> TRUE,
              route |-> [path |-> path, regex |-> g.re, path_params |-> g.params,
                         inner |-> [kind |-> "Router", router |-> router]]]

with_ws(path, handler) ==
    LET g == gen_exact_match_regex(path)
    IN  IF ~g.ok
        THEN CtorErr("Could not create an exact match regex for the route path")
        ELSE [ok |-> TRUE,
              route |-> [path |-> path, regex |-> g.re, path_params |-> g.params,
                         inner |-> [kind |-> "WS", handler |-> handler]]]

(***************************************************************************)
(* Route: matching and parameter extraction.                               *)
(***************************************************************************)
Contains(vec, x) == \E i \in 1..Len(vec) : vec[i] = x

\* The allowed-method vector consulted without the test that it is non-empty.
is_match_no_len_check(r, target_path, method) ==
    /\ regex_is_match(r.regex, target_path)
    /\ (r.inner.kind = "Normal" => Contains(r.inner.methods, method))

is_match(r, target_path, method) ==
    IF r.inner.kind = "Normal"
    THEN IF Len(r.inner.methods) > 0
         THEN regex_is_match(r.regex, target_path) /\ Contains(r.inner.methods, method)
         ELSE regex_is_match(r.regex, target_path)
    ELSE regex_is_match(r.regex, target_path)

\* The loop of generate_req_data over idx in from..ln-1 (0-based), caps the
\* groups of the match.
RECURSIVE CollectParams(_, _, _, _)
CollectParams(names, groups, idx, pp) ==
    IF idx > Len(names) THEN pp
    ELSE CollectParams(names, groups, idx + 1,
            IF idx <= Len(groups)
            THEN path_params_set(pp, names[idx], groups[idx])
            ELSE pp)

\* Off by one: name idx is given group idx+1 (1-based), i.e. caps.get(idx + 2).
RECURSIVE CollectParamsShifted(_, _, _, _)
CollectParamsShifted(names, groups, idx, pp) ==
    IF idx > Len(names) THEN pp
    ELSE CollectParamsShifted(names, groups, idx + 1,
            IF idx + 1 <= Len(groups)
            THEN path_params_set(pp, names[idx], groups[idx + 1])
            ELSE pp)

generate_req_data_shifted(r, target_path) ==
    LET ln == Len(r.path_params)
    IN  Only({ request_data_new(
                 IF ln > 0 /\ caps.matched
                 THEN CollectParamsShifted(r.path_params, caps.groups, 1,
                                           path_params_new)
                 ELSE path_params_new) :
               caps \in {regex_captures(r.regex, target_path)} })

generate_req_data(r, target_path) ==
    LET ln == Len(r.path_params)
    IN  Only({ request_data_new(
                 IF ln > 0 /\ caps.matched
                 THEN CollectParams(r.path_params, caps.groups, 1, path_params_new)
                 ELSE path_params_new) :
               caps \in {regex_captures(r.regex, target_path)} })

(***************************************************************************)
(* SpecRoute: one constructor call, then one call of is_match or of        *)
(* generate_req_data on the Route it returned, over generated templates,   *)
(* target paths and methods.                                               *)
(***************************************************************************)
TemplateSegs == {<<>>, <<"u">>, <<"{", "x", "}">>, <<"{", "y", "}">>, <<"{", "x">>}
PathSegs == {<<>>, <<"u">>, <<"4", "2">>}
Templates == {JoinSegs(ss) : ss \in SeqsUpTo(TemplateSegs, MaxSegs)}
Paths == {JoinSegs(ss) : ss \in SeqsUpTo(PathSegs, MaxPathSegs)}
Methods == {"GET", "POST", "DELETE"}
MethodVecs == {<<>>, <<"GET", "POST">>}

NoCall == [op |-> "none"]

InitRoute ==
    /\ route = NoRoute
    /\ ctor = NoCall
    /\ probe = NoCall
    /\ reqs = <<>>
    /\ routers = <<>>

CallWithNormal ==
    \E path \in Templates, methods \in MethodVecs :
        LET res == with_normal(path, methods, "h")
        IN  /\ ctor = NoCall
            /\ ctor' = [op |-> "with_normal", path |-> path, ok |-> res.ok]
            /\ route' = IF res.ok THEN res.route ELSE NoRoute
            /\ UNCHANGED <<probe, reqs, routers>>

CallWithRouter ==
    \E path \in Templates :
        LET res == with_router(path, 2)
        IN  /\ ctor = NoCall
            /\ ctor' = [op |-> "with_router", path |-> path, ok |-> res.ok]
            /\ route' = IF res.ok THEN res.route ELSE NoRoute
            /\ UNCHANGED <<probe, reqs, routers>>

CallWithWs ==
    \E path \in Templates :
        LET res == with_ws(path, "ws")
        IN  /\ ctor = NoCall
            /\ ctor' = [op |-> "with_ws", path |-> path, ok |-> res.ok]
            /\ route' = IF res.ok THEN res.route ELSE NoRoute
            /\ UNCHANGED <<probe, reqs, routers>>

CallIsMatch ==
    \E target_path \in Paths, method \in Methods :
        /\ route # NoRoute
        /\ probe = NoCall
        /\ probe' = [op |-> "is_match", target_path |-> target_path,
                     method |-> method,
                     result |-> is_match(route, target_path, method)]
        /\ UNCHANGED <<route, ctor, reqs, routers>>

\* The extraction process runs on the path is_match was asked about
\* (process does not itself test the match).
CallGenerateReqData ==
    /\ probe.op = "is_match"
    /\ probe' = [op |-> "generate_req_data", target_path |-> probe.target_path,
                 method |-> probe.method, matched |-> probe.result,
                 data |-> generate_req_data(route, probe.target_path)]
    /\ UNCHANGED <<route, ctor, reqs, routers>>

NextRoute ==
    \/ CallWithNormal
    \/ CallWithRouter
    \/ CallWithWs
    \/ CallIsMatch
    \/ CallGenerateReqData

SpecRoute == InitRoute /\ [][NextRoute]_vars

(***************************************************************************)
(* Spec: dispatch.  A tree of routers built with the constructors, and     *)
(* requests that pass through it concurrently, one step at a time.         *)
(***************************************************************************)
T_api == <<"/", "a", "p", "i", "/">>  \* /api/

T_org == <<"/", "o", "r", "g", "/", "{", "o", "r", "g", "}">>  \* /org/{org}

T_ws == <<"/", "w", "s">>  \* /ws

T_u == <<"/", "u", "/", "{", "i", "d", "}">>  \* /u/{id}

T_users == <<"u", "s", "e", "r", "s", "/", "{", "i", "d", "}">>  \* users/{id}

T_api_users == <<"/", "a", "p", "i", "/", "u", "s", "e", "r", "s", "/", "{", "i", "d", "}">>  \* /api/users/{id}

T_user == <<"/", "u", "s", "e", "r", "/", "{", "u", "s", "e", "r", "}">>  \* /user/{user}

T_team == <<"/", "t", "e", "a", "m", "/", "{", "t", "e", "a", "m", "}">>  \* /team/{team}

T_m == <<"/", "m", "/", "{", "o", "r", "g", "}">>  \* /m/{org}

P_api_users_42 == <<"/", "a", "p", "i", "/", "u", "s", "e", "r", "s", "/", "4", "2">>  \* /api/users/42

P_org_user == <<"/", "o", "r", "g", "/", "a", "c", "m", "e", "/", "u", "s", "e", "r", "/", "7">>  \* /org/acme/user/7

P_org_team == <<"/", "o", "r", "g", "/", "a", "c", "m", "e", "/", "t", "e", "a", "m", "/", "t", "/", "m", "/", "x">>  \* /org/acme/team/t/m/x

P_ws == <<"/", "w", "s">>  \* /ws

P_u_42 == <<"/", "u", "/", "4", "2">>  \* /u/42

P_nope == <<"/", "n", "o", "p", "e">>  \* /nope

S_users_42 == <<"u", "s", "e", "r", "s", "/", "4", "2">>  \* users/42

\* The routing tree: router 1 is the root, "/api/" delegates to router 2,
\* "/org/{org}" to router 3, and router 3's "/team/{team}" to router 4.
RootRouter == 1

Tree ==
    <<  <<with_router(T_api, 2).route,
          with_router(T_org, 3).route,
          with_ws(T_ws, "ws").route,
          with_normal(T_u, <<"GET">>, "h_u").route>>,
        <<with_normal(T_users, <<>>, "h_users").route,
          with_normal(T_api_users, <<>>, "h_api_users").route>>,
        <<with_normal(T_user, <<"GET", "POST">>, "h_user").route,
          with_router(T_team, 4).route>>,
        <<with_normal(T_m, <<>>, "h_m").route>>  >>

\* The requests that arrive: target path and method.
Inputs ==
    { <<P_api_users_42, "GET">>, <<P_org_user, "POST">>, <<P_org_user, "DELETE">>,
      <<P_org_team, "GET">>, <<P_ws, "GET">>, <<P_u_42, "GET">>, <<P_nope, "GET">> }

Reqs == 1..MaxReqs

NoExt == [has |-> FALSE]
NoResult == [none |-> TRUE]
Ok(body) == [ok |-> TRUE, body |-> body]
Err(e) == [ok |-> FALSE, err |-> e]

\* A request that has not arrived yet.
IdleReq ==
    [pc |-> "idle", orig_path |-> <<>>, method |-> "GET", target_path |-> <<>>,
     router |-> 0, idx |-> 0, ext |-> NoExt, kind |-> "None",
     calls |-> 0, handler |-> "none", handler_calls |-> 0, seen |-> NoExt,
     handler_out |-> NoResult, result |-> NoResult,
     forwarded |-> <<>>, layers |-> <<>>]

\* ext.insert(req_data) whatever the extensions hold.
update_req_data_insert(q, req_data) ==
    [q EXCEPT !.ext = [has |-> TRUE, data |-> req_data]]

update_req_data(q, req_data) ==
    IF q.ext.has
    THEN [q EXCEPT !.ext = [has |-> TRUE,
                            data |-> request_data_extend(q.ext.data, req_data)]]
    ELSE [q EXCEPT !.ext = [has |-> TRUE, data |-> req_data]]

\* push_req_data, and a note of the layer for the claims: the route's
\* parameter names and the store before and after.
push_req_data(r, target_path, q) ==
    Only({ [q1 EXCEPT !.layers = Append(@, [names |-> r.path_params,
                                            before |-> q.ext, after |-> q1.ext])] :
           q1 \in {update_req_data(q, generate_req_data(r, target_path))} })

\* process_normal_route up to the await: the handler is called with the
\* annotated request.
process_normal_route(r, target_path, q) ==
    Only({ [q1 EXCEPT !.pc = "handler", !.kind = "Normal", !.calls = @ + 1,
                      !.handler = r.inner.handler, !.handler_calls = @ + 1,
                      !.seen = q1.ext] :
           q1 \in {push_req_data(r, target_path, q)} })

\* A handler failure replaced by a response.
handler_returned_recovering(q, out) ==
    [q EXCEPT !.pc = "done", !.handler_out = out,
              !.result = IF out.ok THEN out ELSE Ok("error page")]

\* process_normal_route from the await on: the handler's output is the result.
handler_returned(q, out) ==
    [q EXCEPT !.pc = "done", !.handler_out = out, !.result = out]

\* The nested router given the target path as it came.
process_router_route_same_path(r, target_path, q) ==
    LET q1 == push_req_data(r, target_path, q)
    IN  [q1 EXCEPT !.pc = "router", !.kind = "Router", !.calls = @ + 1,
                   !.router = r.inner.router, !.target_path = target_path,
                   !.forwarded = Append(@, [template |-> r.path, from |-> target_path,
                                            to |-> target_path,
                                            router |-> r.inner.router])]

\* The request sent round again: the router the route belongs to, the path
\* as it came.
process_router_route_loop(r, target_path, q) ==
    LET q1 == push_req_data(r, target_path, q)
    IN  [q1 EXCEPT !.pc = "router", !.kind = "Router", !.calls = @ + 1]

process_router_route(r, target_path, q) ==
    Only({ [q1 EXCEPT !.pc = "router", !.kind = "Router", !.calls = @ + 1,
                      !.router = r.inner.router, !.target_path = rest,
                      !.forwarded = Append(@, [template |-> r.path,
                                               from |-> target_path, to |-> rest,
                                               router |-> r.inner.router])] :
           q1 \in {push_req_data(r, target_path, q)},
           rest \in {regex_replace_empty(r.regex, target_path)} })

\* An upgrade answered with a failure value.
process_ws_route_err(r, target_path, q) ==
    [q EXCEPT !.pc = "done", !.kind = "WS", !.calls = @ + 1,
              !.result = Err("Websocket support is not yet added")]

\* process_ws_route: the request data is generated and dropped, then todo!().
process_ws_route(r, target_path, q) ==
    [q EXCEPT !.pc = "panicked", !.kind = "WS", !.calls = @ + 1]

\* Router::process (modelled from the design document): the first route of
\* the table that matches is given the request; none is a failure.
FirstMatch(table, target_path, method) ==
    LET hits == {i \in 1..Len(table) : is_match(table[i], target_path, method)}
    IN  IF hits = {} THEN 0
        ELSE CHOOSE i \in hits : \A j \in hits : i <= j

\* Router::process up to its call of Route::process: idx is the route that
\* was found, 0 when there is none.
router_select(table, q) ==
    [q EXCEPT !.idx = FirstMatch(table, q.target_path, q.method)]

router_no_match(q) ==
    [q EXCEPT !.pc = "done", !.result = Err("no route matched")]

\* Every request's store overwritten with q's (one store for all requests).
StoreShared(rs, r, q) ==
    [k \in DOMAIN rs |-> IF k = r THEN q ELSE [rs[k] EXCEPT !.ext = q.ext]]

\* req: &mut Request<Body> - a step writes the request it was given.
StoreInto(rs, r, q) == [rs EXCEPT ![r] = q]

CurRoute(q) == routers[q.router][q.idx]

Init ==
    /\ route = NoRoute
    /\ ctor = NoCall
    /\ probe = NoCall
    /\ routers = Tree
    /\ reqs = [r \in Reqs |-> IdleReq]

\* The owning route table hands an incoming request to the root router.
Dispatch(r) ==
    \E in \in Inputs :
        /\ reqs[r].pc = "idle"
        /\ reqs' = StoreInto(reqs, r,
                     [IdleReq EXCEPT !.pc = "router", !.orig_path = in[1],
                                     !.target_path = in[1], !.method = in[2],
                                     !.router = RootRouter])
        /\ UNCHANGED <<route, ctor, probe, routers>>

\* The request as the router reqs[r] is in has matched it against its table.
Selected(r) == router_select(routers[reqs[r].router], reqs[r])

\* Router::process on a path and method none of its routes matches.
RouterNoMatch(r) ==
    /\ reqs[r].pc = "router"
    /\ \E q \in {Selected(r)} :
          /\ q.idx = 0
          /\ reqs' = StoreInto(reqs, r, router_no_match(q))
    /\ UNCHANGED <<route, ctor, probe, routers>>

\* Router::process calls Route::process of the first matching route:
\* the Inner::Normal arm.
ProcessNormalRoute(r) ==
    /\ reqs[r].pc = "router"
    /\ \E q \in {Selected(r)} :
          /\ q.idx # 0
          /\ CurRoute(q).inner.kind = "Normal"
          /\ \E q2 \in {process_normal_route(CurRoute(q), q.target_path, q)} :
                reqs' = StoreInto(reqs, r, q2)
    /\ UNCHANGED <<route, ctor, probe, routers>>

\* The handler's future completes, with a response or with a failure.
HandlerComplete(r) ==
    \E ok \in BOOLEAN :
        /\ reqs[r].pc = "handler"
        /\ reqs' = StoreInto(reqs, r,
                     handler_returned(reqs[r],
                        IF ok THEN Ok(reqs[r].handler) ELSE Err(reqs[r].handler)))
        /\ UNCHANGED <<route, ctor, probe, routers>>

\* Route::process, Inner::Router arm.
ProcessRouterRoute(r) ==
    /\ reqs[r].pc = "router"
    /\ \E q \in {Selected(r)} :
          /\ q.idx # 0
          /\ CurRoute(q).inner.kind = "Router"
          /\ \E q2 \in {process_router_route(CurRoute(q), q.target_path, q)} :
                reqs' = StoreInto(reqs, r, q2)
    /\ UNCHANGED <<route, ctor, probe, routers>>

\* Route::process, Inner::WS arm.
ProcessWsRoute(r) ==
    /\ reqs[r].pc = "router"
    /\ \E q \in {Selected(r)} :
          /\ q.idx # 0
          /\ CurRoute(q).inner.kind = "WS"
          /\ \E q2 \in {process_ws_route(CurRoute(q), q.target_path, q)} :
                reqs' = StoreInto(reqs, r, q2)
    /\ UNCHANGED <<route, ctor, probe, routers>>

Step(r) ==
    \/ RouterNoMatch(r)
    \/ ProcessNormalRoute(r)
    \/ HandlerComplete(r)
    \/ ProcessRouterRoute(r)
    \/ ProcessWsRoute(r)

Next ==
    \/ \E r \in Reqs : Dispatch(r)
    \/ \E r \in Reqs : RouterNoMatch(r)
    \/ \E r \in Reqs : ProcessNormalRoute(r)
    \/ \E r \in Reqs : HandlerComplete(r)
    \/ \E r \in Reqs : ProcessRouterRoute(r)
    \/ \E r \in Reqs : ProcessWsRoute(r)

Spec == Init /\ [][Next]_vars

\* The executor keeps polling: while some request can take a step, one does
\* (handlers complete).  Requests need not arrive.
FairSpec == Spec /\ WF_vars(\E r \in Reqs : Step(r))

(***************************************************************************)
(* Claims on SpecRoute.                                                    *)
(***************************************************************************)
Admits(r, method) ==
    r.inner.kind = "Normal" /\ Len(r.inner.methods) > 0
        => Contains(r.inner.methods, method)

\* C1: is_match(path, method) is true exactly when the compiled pattern matches
\* the path and, only for a Normal (terminal) route with a non-empty method
\* vector, the method is in it; for a Normal route with no methods and for
\* Router and WS routes the result is the same for every method.
C1_IsMatchContract ==
    probe.op = "is_match" =>
        /\ probe.result = (/\ regex_is_match(route.regex, probe.target_path)
                           /\ Admits(route, probe.method))
        /\ (route.inner.kind # "Normal" \/ route.inner.methods = <<>>)
             => \A m \in Methods : is_match(route, probe.target_path, m) = probe.result

\* C1 witness: allowed {GET, POST}, the path matches, DELETE is refused.
C1_Witness ==
    /\ probe.op = "is_match"
    /\ route.inner.kind = "Normal"
    /\ route.inner.methods = <<"GET", "POST">>
    /\ probe.method = "DELETE"
    /\ regex_is_match(route.regex, probe.target_path)
    /\ probe.result = FALSE

\* The reading of an exact-match template segment by segment.
SegMatches(tseg, pseg) ==
    IF IsParamSeg(tseg) THEN Len(pseg) > 0 ELSE tseg = pseg

SegmentwiseMatch(template, path) ==
    LET ts == Split(template)
        ps == Split(path)
    IN  /\ Len(ts) = Len(ps)
        /\ \A i \in 1..Len(ts) : SegMatches(ts[i], ps[i])

ParamName(tseg) == SubSeq(tseg, 2, Len(tseg) - 1)

ParamSegIdx(template) ==
    {i \in 1..Len(Split(template)) : IsParamSeg(Split(template)[i])}

DistinctParams(template) ==
    \A i, j \in ParamSegIdx(template) :
        ParamName(Split(template)[i]) = ParamName(Split(template)[j]) => i = j

IsExact(r) == r.inner.kind \in {"Normal", "WS"}

\* C5: for an exact-match template, is_match (with an admitted method) is true
\* exactly for the paths that have the template's segments, each literal
\* segment equal and each parameter segment a non-empty text without "/"; a
\* path with extra trailing segments does not match; a template without
\* parameter segments matches only the path equal to it; and extraction on a
\* matching path binds each (distinct) parameter name to its segment.
C5_ExactTemplate ==
    /\ (probe.op = "is_match" /\ IsExact(route) /\ Admits(route, probe.method)) =>
          /\ probe.result = SegmentwiseMatch(route.path, probe.target_path)
          /\ ParamSegIdx(route.path) = {}
               => probe.result = (probe.target_path = route.path)
          /\ Len(Split(probe.target_path)) > Len(Split(route.path))
               => probe.result = FALSE
    /\ (/\ probe.op = "generate_req_data" /\ IsExact(route)
        /\ SegmentwiseMatch(route.path, probe.target_path)
        /\ DistinctParams(route.path)) =>
          LET ts == Split(route.path)
              ps == Split(probe.target_path)
              store == probe.data.path_params
          IN  /\ DOMAIN store = {ParamName(ts[i]) : i \in ParamSegIdx(route.path)}
              /\ \A i \in ParamSegIdx(route.path) : store[ParamName(ts[i])] = ps[i]

\* C5 witness: /u/{x} matched /u/42 with GET and extraction gave {x: "42"}.
C5_Witness ==
    /\ probe.op = "generate_req_data"
    /\ route.inner.kind = "Normal"
    /\ route.path = <<"/", "u", "/", "{", "x", "}">>
    /\ probe.target_path = <<"/", "u", "/", "4", "2">>
    /\ probe.method = "GET"
    /\ probe.matched
    /\ probe.data.path_params = [n \in {<<"x">>} |-> <<"4", "2">>]

GenFor(op, path) ==
    IF op = "with_router" THEN generate_prefix_match_regex(path)
    ELSE generate_exact_match_regex(path)

\* C6: a constructor whose template does not compile returns a failure and no
\* Route; every Route that exists holds the pattern and the parameter names
\* its template compiled to, so is_match and extraction only ever run on a
\* compiled pattern.
C6_NoHalfCompiledRoute ==
    ctor.op # "none" =>
        LET g == GenFor(ctor.op, ctor.path)
        IN  /\ ctor.ok = g.ok
            /\ ~g.ok => (route = NoRoute /\ probe = NoCall)
            /\ route # NoRoute =>
                 /\ g.ok
                 /\ route.path = ctor.path
                 /\ route.regex = g.re
                 /\ route.path_params = g.params

\* C6 witness: a constructor was given a malformed template and failed.
C6_Witness ==
    /\ ctor.op = "with_normal"
    /\ ~generate_exact_match_regex(ctor.path).ok
    /\ ~ctor.ok
    /\ route = NoRoute

\* The last position of name n in names.
LastIdx(names, n) ==
    CHOOSE i \in 1..Len(names) :
        names[i] = n /\ \A j \in (i+1)..Len(names) : names[j] # n

\* C8 as stated: extraction binds paramNames[i] to the text of group i+1 for
\* every participating group, binds nothing when the pattern does not match,
\* and holds no other name.
C8_Original ==
    probe.op = "generate_req_data" =>
        LET caps == regex_captures(route.regex, probe.target_path)
            names == route.path_params
            store == probe.data.path_params
        IN  /\ DOMAIN store \subseteq {names[i] : i \in 1..Len(names)}
            /\ ~caps.matched => store = path_params_new
            /\ caps.matched =>
                 \A i \in 1..Len(names) :
                    IF i <= Len(caps.groups)
                    THEN names[i] \in DOMAIN store /\ store[names[i]] = caps.groups[i]
                    ELSE TRUE

\* C8 (amended): extraction is total; the store holds exactly the names whose
\* group took part in the match, each bound to the text of the last group
\* carrying that name (so with pairwise distinct names paramNames[i] is bound
\* to group i+1), and it is empty when the pattern does not match.
C8_PositionalLastWins ==
    probe.op = "generate_req_data" =>
        LET caps == regex_captures(route.regex, probe.target_path)
            names == route.path_params
            store == probe.data.path_params
        IN  /\ ~caps.matched => store = path_params_new
            /\ caps.matched =>
                 /\ DOMAIN store =
                      {names[i] : i \in {k \in 1..Len(names) : k <= Len(caps.groups)}}
                 /\ \A i \in 1..Len(names) :
                      i <= Len(caps.groups) =>
                        store[names[i]] = caps.groups[LastIdx(names, names[i])]

\* C8 witness: the template /{x}/{x} met /u/42, two groups for one name.
C8_Witness ==
    /\ probe.op = "generate_req_data"
    /\ route.path_params = <<<<"x">>, <<"x">>>>
    /\ probe.matched
    /\ regex_captures(route.regex, probe.target_path).groups = <<<<"u">>, <<"4", "2">>>>
    /\ probe.data.path_params = [n \in {<<"x">>} |-> <<"4", "2">>]

(***************************************************************************)
(* Claims on Spec and FairSpec.                                            *)
(***************************************************************************)
LastSeg(template) == Split(template)[Len(Split(template))]

\* C2: a Delegate route forwards the target path with exactly the matched
\* leading prefix removed ("/api/" turns /api/users/42 into users/42), and the
\* nested router matches its own routes against that remainder.
C2_RemainderForwarded ==
    \A r \in Reqs :
        LET q == reqs[r]
        IN  /\ \A k \in 1..Len(q.forwarded) :
                 LET f == q.forwarded[k]
                     n == Len(f.from) - Len(f.to)
                 IN  /\ n >= 0
                     /\ f.from = SubSeq(f.from, 1, n) \o f.to
                     /\ SegmentwiseMatch(f.template, SubSeq(f.from, 1, n))
                     /\ IsParamSeg(LastSeg(f.template))
                          => (f.to = <<>> \/ f.to[1] = Slash)
                     /\ (f.template = T_api /\ f.from = P_api_users_42)
                          => f.to = S_users_42
                     /\ k > 1 => f.from = q.forwarded[k-1].to
            /\ (q.forwarded # <<>> /\ q.pc = "router")
                 => /\ q.target_path = q.forwarded[Len(q.forwarded)].to
                    /\ q.router = q.forwarded[Len(q.forwarded)].router
            /\ (q.forwarded # <<>> /\ q.kind \in {"Normal", "WS"})
                 => LET last == q.forwarded[Len(q.forwarded)]
                    IN  /\ q.idx = FirstMatch(routers[last.router], last.to, q.method)
                        /\ q.idx # 0
                        /\ is_match(routers[last.router][q.idx], last.to, q.method)
                        /\ Len(q.layers) = Len(q.forwarded) + 1
            /\ (q.orig_path = P_api_users_42 /\ q.pc \in {"handler", "done"})
                 => q.handler = "h_users"

\* C2 witness: /api/users/42 went through "/api/" and reached the nested
\* router's users/{id} handler as users/42.
C2_Witness ==
    \E r \in Reqs :
        /\ reqs[r].pc = "handler"
        /\ reqs[r].handler = "h_users"
        /\ reqs[r].forwarded =
             <<[template |-> T_api, from |-> P_api_users_42, to |-> S_users_42,
                router |-> 2]>>

NameSet(names) == {names[i] : i \in 1..Len(names)}

\* C3: the store is created at the first layer and every later layer whose
\* parameter names are new keeps each entry already present and adds its own;
\* /org/{org} delegating into /user/{user} ends with both org and user.
C3_StoresMerge ==
    \A r \in Reqs :
        LET q == reqs[r]
        IN  /\ \A k \in 1..Len(q.layers) :
                 LET l == q.layers[k]
                     after == l.after.data.path_params
                 IN  /\ l.after.has
                     /\ l.before = (IF k = 1 THEN NoExt ELSE q.layers[k-1].after)
                     /\ ~l.before.has => DOMAIN after = NameSet(l.names)
                     /\ (/\ l.before.has
                         /\ NameSet(l.names) \cap DOMAIN l.before.data.path_params = {})
                          => LET before == l.before.data.path_params
                             IN  /\ DOMAIN after = DOMAIN before \cup NameSet(l.names)
                                 /\ \A n \in DOMAIN before : after[n] = before[n]
            /\ (q.orig_path = P_org_user /\ q.pc = "handler")
                 => q.seen.data.path_params =
                      [n \in {<<"o", "r", "g">>, <<"u", "s", "e", "r">>} |->
                          IF n = <<"o", "r", "g">> THEN <<"a", "c", "m", "e">>
                          ELSE <<"7">>]

\* C3 witness: the handler behind /org/{org} -> /user/{user} was given a
\* store of two layers that holds org and user.
C3_Witness ==
    \E r \in Reqs :
        /\ reqs[r].pc = "handler"
        /\ reqs[r].handler = "h_user"
        /\ Len(reqs[r].layers) = 2
        /\ reqs[r].layers[2].before.has
        /\ DOMAIN reqs[r].seen.data.path_params =
             {<<"o", "r", "g">>, <<"u", "s", "e", "r">>}

C7_HandlerResultVerbatim ==
    \A r \in Reqs :
        LET q == reqs[r]
        IN  q.kind = "Normal" =>
              /\ q.handler_calls = 1
              /\ q.handler = CurRoute(q).inner.handler
              /\ q.pc \in {"handler", "done"}
              /\ q.pc = "handler" => (q.result = NoResult /\ q.handler_out = NoResult)
              /\ q.pc = "done" =>
                   /\ q.handler_out \in {Ok(q.handler), Err(q.handler)}
                   /\ q.result = q.handler_out

\* C7 witness: a handler failed and process returned that failure.
C7_Witness ==
    \E r \in Reqs :
        /\ reqs[r].kind = "Normal"
        /\ reqs[r].pc = "done"
        /\ reqs[r].handler_calls = 1
        /\ reqs[r].result = Err(reqs[r].handler)

\* The depth of the tree of routers below router id.
RECURSIVE Depth(_)
Depth(id) ==
    LET nested == {Tree[id][i].inner.router :
                     i \in {j \in 1..Len(Tree[id]) : Tree[id][j].inner.kind = "Router"}}
    IN  IF nested = {} THEN 1
        ELSE 1 + (CHOOSE d \in {Depth(n) : n \in nested} :
                    \A e \in {Depth(n) : n \in nested} : e <= d)

TreeDepth == Depth(RootRouter)

Ended(q) == q.pc \in {"done", "panicked"}

\* C9: in the finite, acyclic tree, with handlers that complete, every call of
\* process ends (from some point on every request that arrived has ended, and
\* an arrived request never goes back); each Delegate step is one call into
\* the nested router, and the chain ends at a Normal or WS route or at a
\* router where no route matches, after at most as many steps as the tree is
\* deep.
C9_Terminates ==
    /\ [](\A r \in Reqs :
            LET q == reqs[r]
            IN  /\ q.calls <= TreeDepth
                /\ Len(q.forwarded) =
                     q.calls - (IF q.kind \in {"Normal", "WS"} THEN 1 ELSE 0)
                /\ Ended(q) =>
                     \/ q.kind \in {"Normal", "WS"}
                     \/ q.result = Err("no route matched"))
    /\ <>[](\A r \in Reqs : reqs[r].pc = "idle" \/ Ended(reqs[r]))

\* C9 witness: a request went down the deepest chain of the tree to its end.
C9_Witness ==
    \E r \in Reqs :
        /\ reqs[r].pc = "done"
        /\ reqs[r].calls = TreeDepth
        /\ Len(reqs[r].forwarded) = TreeDepth - 1

StoreValues(q) ==
    IF q.ext.has
    THEN {q.ext.data.path_params[n] : n \in DOMAIN q.ext.data.path_params}
    ELSE {}

\* C10: whatever the interleaving of concurrent requests, no step changes a
\* Route (the route tables stay as constructed), a step writes the one request
\* it was given, the store is written only by process, and every value in a
\* request's store is a segment of that request's own path.
C10_RouteImmutableStoreIsolated ==
    /\ [][/\ routers' = routers
          /\ \A a, b \in Reqs :
                (reqs'[a] # reqs[a] /\ reqs'[b] # reqs[b]) => a = b
          /\ \A a \in Reqs :
                reqs'[a].ext # reqs[a].ext => reqs[a].pc = "router"]_vars
    /\ [](\A r \in Reqs :
            StoreValues(reqs[r]) \subseteq
              {Split(reqs[r].orig_path)[i] : i \in 1..Len(Split(reqs[r].orig_path))})

\* C10 witness: two requests in flight through the same root routes, each
\* with a store of its own.
C10_Witness ==
    \E a, b \in Reqs :
        /\ reqs[a].pc = "handler" /\ reqs[b].pc = "handler"
        /\ reqs[a].orig_path = P_api_users_42
        /\ reqs[b].orig_path = P_u_42
        /\ reqs[a].ext.has /\ reqs[b].ext.has
        /\ reqs[a].handler # reqs[b].handler

====
